---------------------------- MODULE Spec2Model ----------------------------
(***************************************************************************)
(* State-machine model of the incremental archive engine of               *)
(* scripts/collect.py: conditional fetching with an HTTP revalidation     *)
(* cache, in-run deduplication, month-partitioned archive files written   *)
(* through a temporary file, retention pruning, and the derived index,    *)
(* latest-window and metrics files.                                       *)
(*                                                                         *)
(* Time.  An instant is a natural number of ticks since year 0, UTC.  A   *)
(* month has TicksPerMonth ticks and the archive timezone (Asia/Tokyo) is *)
(* JSTOffset ticks ahead of UTC.  A textual timestamp ("pubDate", the     *)
(* month key "YYYY-MM") is the tuple of its fixed-width fields and is     *)
(* compared the way Python compares the strings: lexicographically.       *)
(***************************************************************************)
EXTENDS Integers, Sequences, FiniteSets, TLC

(***************************************************************************)
(* Program constants.                                                      *)
(***************************************************************************)
KEEP_YEARS == 5
LATEST_MONTHS == 3
MonthsPerYear == 12
JSTOffset == 1

(***************************************************************************)
(* Bounds of the model.                                                    *)
(***************************************************************************)
TicksPerMonth == 2
MaxRuns == 3
MaxShortRuns == 2
MaxAdvance == 1

None == <<>>
Some(x) == <<x>>

(***************************************************************************)
(* Calendar arithmetic: datetime, isoformat, fromisoformat, astimezone.    *)
(***************************************************************************)
TicksPerYear == MonthsPerYear * TicksPerMonth

Instant(y, m, t) == (y * MonthsPerYear + (m - 1)) * TicksPerMonth + t

Fields(i) == <<i \div TicksPerYear, ((i \div TicksPerMonth) % MonthsPerYear) + 1, i % TicksPerMonth>>

\* Python's str comparison a < b on two texts of the same fixed-width layout.
StrLess(a, b) ==
    \E k \in 1..Len(a) :
        /\ k <= Len(b)
        /\ a[k] < b[k]
        /\ \A j \in 1..(k - 1) : a[j] = b[j]

StrGreater(a, b) == StrLess(b, a)

isoformat_z(dt_utc) == Fields(dt_utc)

fromisoformat(s) == Instant(s[1], s[2], s[3])

month_key_utc(dt_utc) == <<Fields(dt_utc)[1], Fields(dt_utc)[2]>>

month_key_from_dt(dt_utc) ==
    LET dt_jst == Fields(dt_utc + JSTOffset)
    IN  <<dt_jst[1], dt_jst[2]>>

\* now_jst().isoformat(timespec="seconds"): the wall-clock fields in JST.
now_jst_iso(now) == Fields(now + JSTOffset)

\* The MonthKey of the month i months before the month of `now` in JST
\* (datetime(now.year, now.month, 1) - relativedelta(months=i)).
MonthIndex(mk) == mk[1] * MonthsPerYear + (mk[2] - 1)
MonthOfIndex(n) == <<n \div MonthsPerYear, (n % MonthsPerYear) + 1>>

safe_text(s) == IF s = " " THEN "" ELSE s


(***************************************************************************)
(* Entry Normalizer.  A raw feed entry is a record                        *)
(*   [title, link, published_parsed, updated_parsed, published, updated]  *)
(* where *_parsed is None or Some(instant) and published/updated are the  *)
(* free-text dates: [kind |-> "absent" | "garbage" | "naive" | "offset",  *)
(* wall |-> the wall-clock instant the text spells].  A text of kind      *)
(* "offset" carries the +09:00 offset.                                    *)
(***************************************************************************)
dateutil_parse(s) ==
    CASE s.kind = "naive"  -> Some(s.wall)
      [] s.kind = "offset" -> Some(s.wall - JSTOffset)
      [] OTHER             -> None

parse_pubdate(entry) ==
    IF entry.published_parsed # None THEN entry.published_parsed
    ELSE IF entry.updated_parsed # None THEN entry.updated_parsed
    ELSE LET s == IF entry.published.kind # "absent" THEN entry.published ELSE entry.updated
         IN  IF s.kind = "absent" THEN None ELSE dateutil_parse(s)

normalize_entry_epoch(entry, source_name, source_category, now) ==
    LET title == safe_text(entry.title)
        link  == safe_text(entry.link)
        p     == parse_pubdate(entry)
        dt    == IF p = None THEN 0 ELSE p[1]
    IN  IF link = "" \/ title = "" THEN None
        ELSE Some([title |-> title, link |-> link, pubDate |-> isoformat_z(dt),
                   source |-> source_name, category |-> source_category])

\* None when the entry is dropped, Some(item) otherwise; now is the clock.
normalize_entry(entry, source_name, source_category, now) ==
    LET title == safe_text(entry.title)
        link  == safe_text(entry.link)
        p     == parse_pubdate(entry)
        dt    == IF p = None THEN now ELSE p[1]
    IN  IF link = "" \/ title = "" THEN None
        ELSE Some([title |-> title, link |-> link, pubDate |-> isoformat_z(dt),
                   source |-> source_name, category |-> source_category])

RECURSIVE normalize_all(_, _, _, _)
normalize_all(entries, name, category, now) ==
    IF entries = <<>> THEN <<>>
    ELSE normalize_entry(Head(entries), name, category, now)
           \o normalize_all(Tail(entries), name, category, now)

(***************************************************************************)
(* Revalidation cache and Conditional Fetcher.  The cache is a function   *)
(* from URL to [etag, last_modified, last_status, last_checked]; a key    *)
(* that a Python record lacks is the empty text here.  A server answer is *)
(* [kind |-> "response" | "timeout" | "connection", status, etag,         *)
(*  last_modified, body].                                                  *)
(***************************************************************************)
NoRecord == [etag |-> "", last_modified |-> "", last_status |-> 0, last_checked |-> <<>>]

cache_get(http_cache, url) ==
    IF url \in DOMAIN http_cache THEN http_cache[url] ELSE NoRecord

cache_put(http_cache, url, rec) ==
    [u \in (DOMAIN http_cache) \cup {url} |-> IF u = url THEN rec ELSE http_cache[u]]

used_cache(http_cache, url) ==
    \/ safe_text(cache_get(http_cache, url).etag) # ""
    \/ safe_text(cache_get(http_cache, url).last_modified) # ""

\* r.raise_for_status() raises for 4xx and 5xx.
raises_for_status(status) == status >= 400

fetch_not_modified_forgets(cache, now) ==
    [etag |-> "", last_modified |-> "", last_status |-> 304, last_checked |-> now_jst_iso(now)]

fetch_not_modified(cache, now) ==
    [cache EXCEPT !.last_status = 304, !.last_checked = now_jst_iso(now)]

fetch_updated_overwrites(cache, resp, now) ==
    [etag          |-> safe_text(resp.etag),
     last_modified |-> safe_text(resp.last_modified),
     last_status   |-> resp.status,
     last_checked  |-> now_jst_iso(now)]

fetch_updated(cache, resp, now) ==
    LET new_etag     == safe_text(resp.etag)
        new_last_mod == safe_text(resp.last_modified)
    IN  [etag          |-> IF new_etag # "" THEN new_etag ELSE cache.etag,
         last_modified |-> IF new_last_mod # "" THEN new_last_mod ELSE cache.last_modified,
         last_status   |-> resp.status,
         last_checked  |-> now_jst_iso(now)]

fetch_failed(cache, now) ==
    [cache EXCEPT !.last_status = -1, !.last_checked = now_jst_iso(now)]

\* [raised, feed, status, usedCache, error, http_cache]: feed is None or
\* Some(entries); error tells whether info has the key "error"; raised tells
\* whether an exception leaves fetch_feed (the except clause catches every
\* Exception of the request).
fetch_feed(url, http_cache, resp, now) ==
    LET cache == cache_get(http_cache, url)
        uc    == used_cache(http_cache, url)
    IN  IF resp.kind = "response" /\ resp.status = 304
        THEN [raised |-> FALSE, feed |-> None, status |-> 304, usedCache |-> uc, error |-> FALSE,
              http_cache |-> cache_put(http_cache, url, fetch_not_modified(cache, now))]
        ELSE IF resp.kind = "response" /\ ~raises_for_status(resp.status)
        THEN [raised |-> FALSE, feed |-> Some(resp.body), status |-> resp.status,
              usedCache |-> uc, error |-> FALSE,
              http_cache |-> cache_put(http_cache, url, fetch_updated(cache, resp, now))]
        ELSE [raised |-> FALSE, feed |-> None, status |-> -1, usedCache |-> uc, error |-> TRUE,
              http_cache |-> cache_put(http_cache, url, fetch_failed(cache, now))]

(***************************************************************************)
(* Batch Deduplicator: the dict `best` of collect_all, as the sequence of *)
(* its values in insertion order.                                          *)
(***************************************************************************)
IndexOfLink(best, lk) ==
    IF \E k \in 1..Len(best) : best[k].link = lk
    THEN CHOOSE k \in 1..Len(best) : best[k].link = lk
    ELSE 0

dedupe_step_first_wins(best, it) ==
    IF IndexOfLink(best, it.link) = 0 THEN Append(best, it) ELSE best

dedupe_step(best, it) ==
    LET k == IndexOfLink(best, it.link)
    IN  IF k = 0 THEN Append(best, it)
        ELSE IF StrGreater(it.pubDate, best[k].pubDate) THEN [best EXCEPT ![k] = it]
        ELSE best

RECURSIVE dedupe_from(_, _)
dedupe_from(best, out) ==
    IF out = <<>> THEN best ELSE dedupe_from(dedupe_step(best, Head(out)), Tail(out))

dedupe_batch(out) == dedupe_from(<<>>, out)

(***************************************************************************)
(* Month Partition Store.                                                  *)
(***************************************************************************)
Links(items) == {items[k].link : k \in 1..Len(items)}

item_month(it) == month_key_from_dt(fromisoformat(it.pubDate))

\* The keys of by_month in insertion order.
RECURSIVE month_order_from(_, _)
month_order_from(acc, items) ==
    IF items = <<>> THEN acc
    ELSE LET mk == item_month(Head(items))
         IN  month_order_from(IF \E k \in 1..Len(acc) : acc[k] = mk THEN acc ELSE Append(acc, mk),
                              Tail(items))

month_order(items) == month_order_from(<<>>, items)

by_month(items, mk) == SelectSeq(items, LAMBDA it : item_month(it) = mk)

read_ndjson_gz(archive, mk) == IF mk \in DOMAIN archive THEN archive[mk] ELSE <<>>

read_latest_links(latestFile) == IF latestFile.exists THEN Links(latestFile.lines) ELSE {}

admit_always(it, seen) == TRUE

admit(it, seen) == it.link \notin seen

RECURSIVE new_items_from(_, _)
new_items_from(arr, seen) ==
    IF arr = <<>> THEN <<>>
    ELSE IF admit(Head(arr), seen)
         THEN <<Head(arr)>> \o new_items_from(Tail(arr), seen \cup {Head(arr).link})
         ELSE new_items_from(Tail(arr), seen)

new_items_partition_only(existing, latest_links, arr) == new_items_from(arr, Links(existing))

new_items(existing, latest_links, arr) == new_items_from(arr, Links(existing) \cup latest_links)

\* list.sort(key=pubDate, reverse=True): stable, newest first.
insert_desc(s, x) ==
    LET later == {k \in 1..Len(s) : StrLess(s[k].pubDate, x.pubDate)}
        p     == IF later = {} THEN Len(s) + 1 ELSE CHOOSE k \in later : \A j \in later : k <= j
    IN  SubSeq(s, 1, p - 1) \o <<x>> \o SubSeq(s, p, Len(s))

RECURSIVE sort_desc_from(_, _)
sort_desc_from(acc, s) ==
    IF s = <<>> THEN acc ELSE sort_desc_from(insert_desc(acc, Head(s)), Tail(s))

sort_desc(s) == sort_desc_from(<<>>, s)

\* "if not new_items: continue".
nothing_admitted_never(added) == FALSE

nothing_admitted(added) == added = <<>>

merged_partition_new_only(existing, added) == sort_desc(added)

merged_partition(existing, added) == sort_desc(existing \o added)

file_put(files, mk, content) ==
    [k \in (DOMAIN files) \cup {mk} |-> IF k = mk THEN content ELSE files[k]]

file_remove(files, gone) == [k \in (DOMAIN files) \ gone |-> files[k]]

\* write_ndjson_gz(path, items) in its three steps, on the pair
\* [archive, tmpFile]: gzip.open(tmp, "wt") creates the temporary file empty,
\* the loop writes the lines, tmp.replace(path) renames it over the partition.
gzip_open_in_place(fs, mk) ==
    [archive |-> file_put(fs.archive, mk, <<>>),
     tmpFile |-> [exists |-> TRUE, mk |-> mk, lines |-> <<>>]]

gzip_open_tmp(fs, mk) ==
    [fs EXCEPT !.tmpFile = [exists |-> TRUE, mk |-> mk, lines |-> <<>>]]

write_lines(fs, lines) == [fs EXCEPT !.tmpFile.lines = lines]

tmp_replace(fs) ==
    [archive |-> file_put(fs.archive, fs.tmpFile.mk, fs.tmpFile.lines),
     tmpFile |-> [exists |-> FALSE, mk |-> <<>>, lines |-> <<>>]]

(***************************************************************************)
(* Retention Pruner, Index Publisher, Latest Window Materializer.          *)
(***************************************************************************)
\* sorted(set(months)) of the partition files present.
RECURSIVE sorted_months(_)
sorted_months(S) ==
    IF S = {} THEN <<>>
    ELSE LET m == CHOOSE x \in S : \A y \in S : x = y \/ StrLess(x, y)
         IN  <<m>> \o sorted_months(S \ {m})

list_months_in_archive(archive) == sorted_months(DOMAIN archive)

\* now - relativedelta(years=KEEP_YEARS), truncated to the first of its month (JST).
cutoff_month_start(now) ==
    LET n == Fields(now + JSTOffset) IN <<n[1] - KEEP_YEARS, n[2]>>

is_expired_inclusive(mk, now) == ~StrLess(cutoff_month_start(now), mk)

is_expired(mk, now) == StrLess(mk, cutoff_month_start(now))

pruned_months(archive, now) == {mk \in DOMAIN archive : is_expired(mk, now)}

prune_old_archives(archive, now) == file_remove(archive, pruned_months(archive, now))

index_payload_swapped(archive, now) ==
    LET months == list_months_in_archive(archive)
    IN  [exists      |-> TRUE,
         generatedAt |-> now_jst_iso(now),
         keepYears   |-> KEEP_YEARS,
         latestMonths |-> LATEST_MONTHS,
         minMonth    |-> IF months # <<>> THEN Some(months[Len(months)]) ELSE None,
         maxMonth    |-> IF months # <<>> THEN Some(months[1]) ELSE None,
         months      |-> months]

index_payload(archive, now) ==
    LET months == list_months_in_archive(archive)
    IN  [exists      |-> TRUE,
         generatedAt |-> now_jst_iso(now),
         keepYears   |-> KEEP_YEARS,
         latestMonths |-> LATEST_MONTHS,
         minMonth    |-> IF months # <<>> THEN Some(months[1]) ELSE None,
         maxMonth    |-> IF months # <<>> THEN Some(months[Len(months)]) ELSE None,
         months      |-> months]

months_back_list(n_months, now) ==
    LET cur == MonthIndex(month_key_from_dt(now))
    IN  {MonthOfIndex(cur - i) : i \in 0..(n_months - 1)}

target_months(archive, now) ==
    SelectSeq(list_months_in_archive(archive), LAMBDA m : m \in months_back_list(LATEST_MONTHS, now))

RECURSIVE read_all(_, _)
read_all(archive, months) ==
    IF months = <<>> THEN <<>>
    ELSE read_ndjson_gz(archive, Head(months)) \o read_all(archive, Tail(months))

latest_lines_no_dedupe(archive, now) ==
    sort_desc(read_all(archive, target_months(archive, now)))

latest_lines(archive, now) ==
    sort_desc(dedupe_batch(read_all(archive, target_months(archive, now))))


(***************************************************************************)
(* The environment: the clock, the source list and what the servers send. *)
(***************************************************************************)
\* The first run happens in the last tick of January 2026 UTC, which is
\* already February 2026 in the archive timezone.
Now0 == Instant(2026, 1, TicksPerMonth - 1)

\* In the month of the retention cutoff as seen from Now0.
DateCutoff == Instant(2026 - KEEP_YEARS, 2, 0)
\* In the oldest month of the latest window as seen from Now0.
DateEdge == Instant(2025, 12, 0)
\* In the last month older than the retention cutoff as seen from Now0.
DateExpired == Instant(2026 - KEEP_YEARS, 1, 0)

NoText == [kind |-> "absent", wall |-> 0]

Entry(title, link, published_parsed) ==
    [title |-> title, link |-> link, published_parsed |-> published_parsed,
     updated_parsed |-> None, published |-> NoText, updated |-> NoText]

EntryDates == {Some(DateExpired), Some(DateCutoff), Some(DateEdge), None}

EntryChoices ==
    {Entry(t, "L1", d) : t \in {"t1", "t2"}, d \in EntryDates}
        \cup {Entry("t1", "L2", Some(DateEdge)), Entry(" ", "L2", None)}

FeedBodies == {<<>>} \cup {<<e>> : e \in EntryChoices}

Response(status, etag, last_modified, body) ==
    [kind |-> "response", status |-> status, etag |-> etag,
     last_modified |-> last_modified, body |-> body]

\* Servers that always answer 200 and send no validators.
PlainResponses == {Response(200, "", "", b) : b \in FeedBodies}

SourceA == [name |-> "A", url |-> "uA", category |-> "c1", enabled |-> TRUE]
SourceB == [name |-> "B", url |-> "uB", category |-> "c2", enabled |-> TRUE]

Urls == {"uA", "uB"}

GoodConfig == [valid |-> TRUE, data |-> <<SourceA, SourceB>>]

NoLines == [exists |-> FALSE, lines |-> <<>>]
NoTmp == [exists |-> FALSE, mk |-> <<>>, lines |-> <<>>]
NoIndex == [exists |-> FALSE, generatedAt |-> <<>>, keepYears |-> 0, latestMonths |-> 0,
            minMonth |-> None, maxMonth |-> None, months |-> <<>>]
NoCacheFile == [state |-> "absent", data |-> <<>>]
NoMetrics == [exists |-> FALSE, count |-> 0, feeds |-> {}]
NoPending == [mk |-> <<>>, lines |-> <<>>, added |-> 0]

(***************************************************************************)
(* State.                                                                  *)
(***************************************************************************)
VARIABLES
    now,          \* the clock, an instant
    advances,     \* how often the clock was advanced
    runs,         \* how many runs were started
    pc,           \* position of the running process in main(), "idle" between runs
    archive,      \* month key -> lines of that month's partition file
    tmpFile,      \* the .tmp file write_ndjson_gz is writing
    latestFile,   \* docs/data/latest.ndjson
    indexFile,    \* docs/data/index.json
    cacheFile,    \* config/http_cache.json
    metricsFile,  \* docs/data/feed_metrics.json
    server,       \* URL -> what its server answers during this run
    rerun,        \* this run repeats the previous run against the unchanged feed
    fault,        \* the fault that hit this run: "" | "config" | "cache" | "partition" | "latest"
    archive0,     \* the archive as it was when this run started
    sources,      \* collect_all: the enabled sources
    si,           \* collect_all: index of the next source
    http_cache,   \* collect_all: the cache mapping in memory
    out,          \* collect_all: normalized items so far
    metrics,      \* collect_all: metrics so far
    items,        \* main: the deduplicated batch
    mi,           \* upsert_archive: index of the next month of by_month
    pending,      \* upsert_archive: [mk, lines, added] of the partition being written
    added_total   \* upsert_archive: count of newly added items

files == <<archive, tmpFile, latestFile, indexFile, cacheFile, metricsFile>>
memory == <<sources, si, http_cache, out, metrics, items, mi, pending, added_total>>
vars == <<now, advances, runs, pc, files, server, rerun, fault, archive0, memory>>

Init ==
    /\ now = Now0
    /\ advances = 0
    /\ runs = 0
    /\ pc = "idle"
    /\ archive = <<>>
    /\ tmpFile = NoTmp
    /\ latestFile = NoLines
    /\ indexFile = NoIndex
    /\ cacheFile = NoCacheFile
    /\ metricsFile = NoMetrics
    /\ server = <<>>
    /\ rerun = FALSE
    /\ fault = ""
    /\ archive0 = <<>>
    /\ sources = <<>>
    /\ si = 0
    /\ http_cache = <<>>
    /\ out = <<>>
    /\ metrics = <<>>
    /\ items = <<>>
    /\ mi = 0
    /\ pending = NoPending
    /\ added_total = 0

FreshMemory ==
    /\ sources' = <<>>
    /\ si' = 0
    /\ http_cache' = <<>>
    /\ out' = <<>>
    /\ metrics' = <<>>
    /\ items' = <<>>
    /\ mi' = 0
    /\ pending' = NoPending
    /\ added_total' = 0

\* A missing, truncated or otherwise unparsable cache file loads as {}.
load_http_cache(file) == IF file.state = "ok" THEN file.data ELSE <<>>

\* A server answers 304 only to a conditional request.
Plausible(srv) ==
    \A u \in Urls : srv[u].kind = "response" /\ srv[u].status = 304
                        => used_cache(load_http_cache(cacheFile), u)

(***************************************************************************)
(* The environment's actions.                                              *)
(***************************************************************************)
AdvanceClock ==
    /\ pc = "idle"
    /\ advances < MaxAdvance
    /\ now' = now + TicksPerMonth
    /\ advances' = advances + 1
    /\ UNCHANGED <<runs, pc, files, server, rerun, fault, archive0, memory>>

\* The scheduler starts main(); ensure_dirs() changes nothing modelled here.
StartRun(Responses, limit) ==
    /\ pc = "idle"
    /\ runs < limit
    /\ \E srv \in [Urls -> Responses] : Plausible(srv) /\ server' = srv
    /\ runs' = runs + 1
    /\ rerun' = FALSE
    /\ fault' = ""
    /\ archive0' = archive
    /\ pc' = "load_sources"
    /\ FreshMemory
    /\ UNCHANGED <<now, advances, files>>

\* The scheduler starts main() again right after a complete run, the servers
\* answering as before.
Rerun ==
    /\ pc = "done"
    /\ runs < MaxRuns
    /\ runs' = runs + 1
    /\ rerun' = TRUE
    /\ fault' = ""
    /\ archive0' = archive
    /\ pc' = "load_sources"
    /\ FreshMemory
    /\ UNCHANGED <<now, advances, files, server>>

Finish ==
    /\ pc = "done"
    /\ pc' = "idle"
    /\ server' = <<>>
    /\ rerun' = FALSE
    /\ FreshMemory
    /\ UNCHANGED <<fault, now, advances, runs, files, archive0>>

(***************************************************************************)
(* collect_all.                                                            *)
(***************************************************************************)
enabled_sources(data) == SelectSeq(data, LAMBDA s : s.enabled)

load_sources_lenient(cfg) ==
    [raised |-> FALSE, sources |-> IF cfg.valid THEN enabled_sources(cfg.data) ELSE <<>>]

\* load_sources(): open() or json.load raise on a missing or malformed file.
load_sources(cfg) ==
    IF cfg.valid THEN [raised |-> FALSE, sources |-> enabled_sources(cfg.data)]
    ELSE [raised |-> TRUE, sources |-> <<>>]

\* load_sources() and load_http_cache(); an unreadable source list raises and
\* ends the run.
LoadSources(Configs) ==
    /\ pc = "load_sources"
    /\ \E cfg \in Configs :
         /\ fault' = IF cfg.valid THEN fault ELSE "config"
         /\ IF ~load_sources(cfg).raised
            THEN /\ sources' = load_sources(cfg).sources
                 /\ http_cache' = load_http_cache(cacheFile)
                 /\ si' = 1
                 /\ pc' = "fetch"
                 /\ UNCHANGED <<server, rerun>>
            ELSE /\ pc' = "idle"
                 /\ server' = <<>>
                 /\ rerun' = FALSE
                 /\ UNCHANGED <<sources, http_cache, si>>
    /\ UNCHANGED <<now, advances, runs, files, archive0, out, metrics, items, mi, pending, added_total>>

metric(name, url, category, r) ==
    [name |-> name, url |-> url, category |-> category, status |-> r.status,
     usedCache |-> r.usedCache, error |-> r.error]

\* One iteration of the loop over the sources.  An exception that left
\* fetch_feed would leave collect_all and main as well.
FetchSource ==
    /\ pc = "fetch"
    /\ si <= Len(sources)
    /\ LET s        == sources[si]
           name     == safe_text(s.name)
           url      == safe_text(s.url)
           category == safe_text(s.category)
       IN  IF url = ""
           THEN /\ UNCHANGED <<http_cache, out, metrics>>
                /\ si' = si + 1
                /\ UNCHANGED <<pc, server, rerun>>
           ELSE LET r == fetch_feed(url, http_cache, server[url], now)
                IN  IF r.raised
                    THEN /\ pc' = "idle"
                         /\ server' = <<>>
                         /\ rerun' = FALSE
                         /\ UNCHANGED <<http_cache, out, metrics, si>>
                    ELSE /\ http_cache' = r.http_cache
                         /\ metrics' = Append(metrics, metric(name, url, category, r))
                         /\ out' = IF r.feed = None THEN out
                                   ELSE out \o normalize_all(r.feed[1], name, category, now)
                         /\ si' = si + 1
                         /\ UNCHANGED <<pc, server, rerun>>
    /\ UNCHANGED <<fault, now, advances, runs, files, archive0, sources, items, mi, pending, added_total>>

\* save_http_cache: open(HTTP_CACHE_FILE, "w") truncates the file ...
SaveCacheOpen ==
    /\ pc = "fetch"
    /\ si > Len(sources)
    /\ cacheFile' = [state |-> "truncated", data |-> <<>>]
    /\ pc' = "save_cache"
    /\ UNCHANGED <<fault, now, advances, runs, archive, tmpFile, latestFile, indexFile, metricsFile,
                   server, rerun, archive0, memory>>

\* ... and json.dump writes the mapping; collect_all then deduplicates the
\* batch and returns, and main calls upsert_archive.
SaveCacheDump ==
    /\ pc = "save_cache"
    /\ cacheFile' = [state |-> "ok", data |-> http_cache]
    /\ items' = dedupe_batch(out)
    /\ mi' = 1
    /\ added_total' = 0
    /\ pc' = "upsert"
    /\ UNCHANGED <<fault, now, advances, runs, archive, tmpFile, latestFile, indexFile, metricsFile,
                   server, rerun, archive0, sources, si, http_cache, out, metrics, pending>>

(***************************************************************************)
(* upsert_archive.                                                         *)
(***************************************************************************)
\* One iteration of the loop over by_month, up to opening the temporary file.
UpsertMonth ==
    /\ pc = "upsert"
    /\ mi <= Len(month_order(items))
    /\ LET mk       == month_order(items)[mi]
           existing == read_ndjson_gz(archive, mk)
           added    == new_items(existing, read_latest_links(latestFile), by_month(items, mk))
           fs       == gzip_open_tmp([archive |-> archive, tmpFile |-> tmpFile], mk)
       IN  IF nothing_admitted(added)
           THEN /\ mi' = mi + 1
                /\ UNCHANGED <<pc, archive, tmpFile, pending>>
           ELSE /\ pending' = [mk |-> mk, lines |-> merged_partition(existing, added),
                               added |-> Len(added)]
                /\ archive' = fs.archive
                /\ tmpFile' = fs.tmpFile
                /\ pc' = "write_tmp"
                /\ UNCHANGED mi
    /\ UNCHANGED <<fault, now, advances, runs, latestFile, indexFile, cacheFile, metricsFile,
                   server, rerun, archive0, sources, si, http_cache, out, metrics, items, added_total>>

\* The lines are written to the temporary file, which is closed.
UpsertWriteTmp ==
    /\ pc = "write_tmp"
    /\ LET fs == write_lines([archive |-> archive, tmpFile |-> tmpFile], pending.lines)
       IN  /\ archive' = fs.archive
           /\ tmpFile' = fs.tmpFile
    /\ pc' = "rename"
    /\ UNCHANGED <<fault, now, advances, runs, latestFile, indexFile, cacheFile, metricsFile,
                   server, rerun, archive0, memory>>

\* tmp.replace(path), and the rest of the iteration.
UpsertRename ==
    /\ pc = "rename"
    /\ LET fs == tmp_replace([archive |-> archive, tmpFile |-> tmpFile])
       IN  /\ archive' = fs.archive
           /\ tmpFile' = fs.tmpFile
    /\ added_total' = added_total + pending.added
    /\ pending' = NoPending
    /\ mi' = mi + 1
    /\ pc' = "upsert"
    /\ UNCHANGED <<fault, now, advances, runs, latestFile, indexFile, cacheFile, metricsFile,
                   server, rerun, archive0, sources, si, http_cache, out, metrics, items>>

(***************************************************************************)
(* The rest of main.                                                       *)
(***************************************************************************)
PruneOldArchives ==
    /\ pc = "upsert"
    /\ mi > Len(month_order(items))
    /\ archive' = prune_old_archives(archive, now)
    /\ pc' = "index"
    /\ UNCHANGED <<fault, now, advances, runs, tmpFile, latestFile, indexFile, cacheFile, metricsFile,
                   server, rerun, archive0, memory>>

GenerateIndex ==
    /\ pc = "index"
    /\ indexFile' = index_payload(archive, now)
    /\ pc' = "latest"
    /\ UNCHANGED <<fault, now, advances, runs, archive, tmpFile, latestFile, cacheFile, metricsFile,
                   server, rerun, archive0, memory>>

GenerateLatest ==
    /\ pc = "latest"
    /\ latestFile' = [exists |-> TRUE, lines |-> latest_lines(archive, now)]
    /\ pc' = "metrics"
    /\ UNCHANGED <<fault, now, advances, runs, archive, tmpFile, indexFile, cacheFile, metricsFile,
                   server, rerun, archive0, memory>>

\* The order of "feeds" (by elapsed time) is not modelled.
WriteFeedMetrics ==
    /\ pc = "metrics"
    /\ metricsFile' = [exists |-> TRUE, count |-> Len(metrics),
                       feeds |-> {metrics[k] : k \in 1..Len(metrics)}]
    /\ pc' = "done"
    /\ UNCHANGED <<fault, now, advances, runs, archive, tmpFile, latestFile, indexFile, cacheFile,
                   server, rerun, archive0, memory>>

Pipeline ==
    \/ FetchSource
    \/ SaveCacheOpen
    \/ SaveCacheDump
    \/ UpsertMonth
    \/ UpsertWriteTmp
    \/ UpsertRename
    \/ PruneOldArchives
    \/ GenerateIndex
    \/ GenerateLatest
    \/ WriteFeedMetrics

\* Complete runs against servers that send no validators.
Next ==
    \/ AdvanceClock
    \/ StartRun(PlainResponses, MaxRuns)
    \/ Rerun
    \/ Finish
    \/ LoadSources({GoodConfig})
    \/ Pipeline

Spec == Init /\ [][Next]_vars


(***************************************************************************)
(* Servers that revalidate and fail, and source lists of every kind.      *)
(***************************************************************************)
FreshEntry == Entry("t1", "L1", None)

HttpResponses ==
    {Response(200, h[1], h[2], b) :
        h \in {<<"", "">>, <<"e1", "">>, <<"e2", "m1">>},
        b \in {<<>>, <<FreshEntry>>}}
      \cup {Response(304, "e2", "", <<FreshEntry>>)}
      \cup {Response(300, "", "", <<FreshEntry>>)}
      \cup {Response(500, "", "", <<>>)}
      \cup {[kind |-> "timeout", status |-> 0, etag |-> "", last_modified |-> "", body |-> <<>>]}

BrokenConfig == [valid |-> FALSE, data |-> <<>>]

MixedConfig ==
    [valid |-> TRUE,
     data  |-> << [name |-> "N", url |-> " ", category |-> "c1", enabled |-> TRUE],
                  SourceB,
                  [name |-> "D", url |-> "uA", category |-> "c1", enabled |-> FALSE],
                  SourceA >>]

HttpConfigs == {BrokenConfig, MixedConfig}

NextHttp ==
    \/ AdvanceClock
    \/ StartRun(HttpResponses, MaxShortRuns)
    \/ Finish
    \/ LoadSources(HttpConfigs)
    \/ Pipeline

SpecHttp == Init /\ [][NextHttp]_vars

(***************************************************************************)
(* Runs that may be killed at any point.                                   *)
(***************************************************************************)
\* An entry whose date text neither feedparser nor dateutil can read.
GarbageEntry ==
    [Entry("t1", "L2", None) EXCEPT !.published = [kind |-> "garbage", wall |-> 0]]

CrashResponses ==
    { Response(200, "e1", "", <<FreshEntry>>),
      Response(200, "", "", <<GarbageEntry>>),
      Response(200, "", "", <<Entry("t2", "L1", Some(DateEdge))>>),
      Response(200, "", "", <<Entry("t1", "L2", Some(DateEdge))>>),
      Response(304, "", "", <<>>) }

\* The process is killed: its memory is gone, the files stay as they are.
Crash ==
    /\ pc \notin {"idle", "done"}
    /\ pc' = "idle"
    /\ server' = <<>>
    /\ rerun' = FALSE
    /\ FreshMemory
    /\ UNCHANGED <<fault, now, advances, runs, files, archive0>>

\* Where an exception raised by a write goes: nothing in save_http_cache,
\* write_ndjson_gz, upsert_archive, generate_latest or main catches it, so it
\* ends the process.
swallowed(stage) == stage

unhandled(stage) == "idle"

FaultOf(stage) ==
    CASE stage = "save_cache" -> "cache"
      [] stage = "latest"     -> "latest"
      [] OTHER                -> "partition"

\* A write raises OSError: json.dump in save_http_cache, f.write or
\* tmp.replace in write_ndjson_gz, open in generate_latest.  The files stay
\* as the failed call left them.
WriteFails ==
    /\ pc \in {"save_cache", "write_tmp", "rename", "latest"}
    /\ fault' = FaultOf(pc)
    /\ pc' = unhandled(pc)
    /\ IF unhandled(pc) = "idle"
       THEN /\ server' = <<>>
            /\ rerun' = FALSE
            /\ FreshMemory
       ELSE UNCHANGED <<server, rerun, memory>>
    /\ UNCHANGED <<now, advances, runs, files, archive0>>

NextCrash ==
    \/ AdvanceClock
    \/ StartRun(CrashResponses, MaxShortRuns)
    \/ Finish
    \/ LoadSources({GoodConfig})
    \/ Pipeline
    \/ Crash
    \/ WriteFails

SpecCrash == Init /\ [][NextCrash]_vars


(***************************************************************************)
(* Properties.                                                             *)
(***************************************************************************)
AllLinks(files_) == UNION {Links(files_[mk]) : mk \in DOMAIN files_}

\* The places <<month key, line number>> of the archive that hold link lk.
PlacesOf(files_, lk) ==
    {p \in UNION {{<<mk, k>> : k \in 1..Len(files_[mk])} : mk \in DOMAIN files_} :
        files_[p[1]][p[2]].link = lk}

UpsertDone == pc = "upsert" /\ mi > Len(month_order(items))

\* C1: in every reachable state, no partition file of the archive holds two
\* items with the same link.
C1_NoDuplicateLinks ==
    \A mk \in DOMAIN archive :
        \A i, j \in 1..Len(archive[mk]) :
            archive[mk][i].link = archive[mk][j].link => i = j

\* A run has offered a link that its month's partition already held, and has
\* left a partition of two items.
C1_Witness ==
    /\ UpsertDone
    /\ \E k \in 1..Len(items) : items[k].link \in Links(read_ndjson_gz(archive0, item_month(items[k])))
    /\ \E mk \in DOMAIN archive : Len(archive[mk]) >= 2

\* C2: a run that repeats the previous complete run against the unchanged
\* feed adds nothing (upsert_archive returns 0) and ends with every partition
\* file as the previous run left it.
C2_Idempotent ==
    (pc = "done" /\ rerun) => (added_total = 0 /\ archive = archive0)


\* What the two sources of GoodConfig yield in this run.
BatchOf(s) == normalize_all(server[s.url].body, s.name, s.category, now)

Newer(a, b) == IF StrLess(a.pubDate, b.pubDate) THEN b ELSE a

\* Both sources yield one item each, with the same link, different timestamps
\* and different titles, and the link was in no partition when the run began.
C3_Case ==
    LET a == BatchOf(SourceA)
        b == BatchOf(SourceB)
    IN  /\ Len(a) = 1
        /\ Len(b) = 1
        /\ a[1].link = b[1].link
        /\ a[1].pubDate # b[1].pubDate
        /\ a[1].title # b[1].title
        /\ a[1].link \notin AllLinks(archive0)

\* The archive holds link lk exactly once, with the timestamp and title of w.
HoldsOnce(lk, w) ==
    /\ Cardinality(PlacesOf(archive, lk)) = 1
    /\ \A p \in PlacesOf(archive, lk) :
          /\ archive[p[1]][p[2]].pubDate = w.pubDate
          /\ archive[p[1]][p[2]].title = w.title

\* The first month that retention keeps, as a count of months, and the months
\* before it.
CutoffIndex == MonthIndex(month_key_from_dt(now)) - KEEP_YEARS * MonthsPerYear
Older(mk) == MonthIndex(mk) < CutoffIndex

\* C3 as stated: two sources yield link L with timestamps T1 < T2 and
\* different titles, L not yet archived; after the run the archive holds
\* exactly one item for L, with T2 and the title that came with T2.
C3_NewestWins_Original ==
    (pc = "done" /\ C3_Case) =>
        HoldsOnce(BatchOf(SourceA)[1].link, Newer(BatchOf(SourceA)[1], BatchOf(SourceB)[1]))

\* C3 as amended: the same, provided the month of T2 is not older than the
\* retention cutoff of the run.
C3_NewestWins ==
    (/\ pc = "done"
     /\ C3_Case
     /\ ~Older(item_month(Newer(BatchOf(SourceA)[1], BatchOf(SourceB)[1])))) =>
        HoldsOnce(BatchOf(SourceA)[1].link, Newer(BatchOf(SourceA)[1], BatchOf(SourceB)[1]))

\* The case of C3 where the source fetched first brought the later timestamp.
C3_Witness ==
    /\ pc = "done"
    /\ C3_Case
    /\ StrLess(BatchOf(SourceB)[1].pubDate, BatchOf(SourceA)[1].pubDate)
    /\ ~Older(item_month(BatchOf(SourceA)[1]))

\* C4: the pruning step leaves no partition of a month before the cutoff
\* (the month of now in the archive timezone, KEEP_YEARS years earlier), and
\* keeps every other partition that existed, with its content.
C4_MonotonicRetention ==
    [][(pc = "upsert" /\ pc' = "index") =>
          /\ \A mk \in DOMAIN archive' : ~Older(mk)
          /\ \A mk \in DOMAIN archive :
                ~Older(mk) => (mk \in DOMAIN archive' /\ archive'[mk] = archive[mk])]_vars

\* Pruning has deleted a partition that an earlier run had left, and has kept
\* another.
C4_Witness ==
    /\ pc = "index"
    /\ \E mk \in DOMAIN archive0 : Older(mk) /\ mk \notin DOMAIN archive
    /\ DOMAIN archive # {}


\* C5: while write_ndjson_gz has not yet renamed the temporary file, the
\* partition at the target path is what it was before the call, also when the
\* process is killed there; and whenever a partition file changes or appears,
\* its new content is the complete sequence that was to be written.
C5_PartitionWriteAtomic ==
    [][/\ (pc \in {"write_tmp", "rename"} /\ pc' \in {"write_tmp", "rename", "idle"}) =>
             /\ (pending.mk \in DOMAIN archive') = (pending.mk \in DOMAIN archive0)
             /\ read_ndjson_gz(archive', pending.mk) = read_ndjson_gz(archive0, pending.mk)
       /\ \A mk \in DOMAIN archive' :
             \/ mk \in DOMAIN archive /\ archive'[mk] = archive[mk]
             \/ pc = "rename" /\ mk = pending.mk /\ archive'[mk] = pending.lines]_vars

\* The process was killed after the temporary file was written in full and
\* before the rename; the partition still holds its shorter, old content.
C5_Witness ==
    /\ pc = "idle"
    /\ tmpFile.exists
    /\ Len(tmpFile.lines) >= 2
    /\ tmpFile.mk \in DOMAIN archive
    /\ Len(archive[tmpFile.mk]) = Len(tmpFile.lines) - 1

\* C6: once a cache mapping has been saved, the cache file holds a complete
\* mapping (the old one or the new one) in every later state, whatever
\* happens during a later save.
C6_CacheWriteAtomic ==
    [][cacheFile.state = "ok" => cacheFile'.state = "ok"]_vars


(***************************************************************************)
(* Properties of the fetch loop.  While pc = "fetch" the cache file still *)
(* holds what the run loaded, so OldRecord is the record before the fetch.*)
(***************************************************************************)
OldRecord(u) == cache_get(load_http_cache(cacheFile), u)

UrlOf(k) == safe_text(sources[k].url)

NotModified(r) == r.kind = "response" /\ r.status = 304
Success(r) == r.kind = "response" /\ r.status \in 200..299
Failing(r) == ~NotModified(r) /\ ~Success(r)

ItemSet(lines) == {lines[k] : k \in 1..Len(lines)}

\* The items of source `name` that this run has put into the archive.
AddedFrom(name) ==
    {it \in UNION {ItemSet(archive[mk]) : mk \in DOMAIN archive} :
        /\ it.source = name
        /\ it \notin UNION {ItemSet(archive0[mk]) : mk \in DOMAIN archive0}}

\* C7: a source whose server answers 304 contributes no item to the batch or
\* to any partition; its record gets last_status 304 and last_checked now and
\* keeps the etag and last_modified it had before the fetch, and that record
\* is what the run saves.
C7_NotModified ==
    /\ pc = "fetch" =>
         \A k \in 1..(si - 1) :
            (UrlOf(k) # "" /\ NotModified(server[UrlOf(k)])) =>
               /\ http_cache[UrlOf(k)].last_status = 304
               /\ http_cache[UrlOf(k)].last_checked = now_jst_iso(now)
               /\ http_cache[UrlOf(k)].etag = OldRecord(UrlOf(k)).etag
               /\ http_cache[UrlOf(k)].last_modified = OldRecord(UrlOf(k)).last_modified
               /\ \A j \in 1..Len(out) : out[j].source # sources[k].name
    /\ pc = "done" =>
         \A k \in 1..Len(sources) :
            (UrlOf(k) # "" /\ NotModified(server[UrlOf(k)])) =>
               /\ cacheFile.state = "ok"
               /\ cacheFile.data[UrlOf(k)] = http_cache[UrlOf(k)]
               /\ cacheFile.data[UrlOf(k)].last_status = 304
               /\ AddedFrom(sources[k].name) = {}

\* A run has ended in which a server answered 304, with a fresher ETag header
\* and a body, to a request that carried the cached validator "e1", a month
\* after the validator was cached.
C7_Witness ==
    /\ pc = "done"
    /\ advances = 1
    /\ \E k \in 1..Len(sources) :
          /\ UrlOf(k) # ""
          /\ NotModified(server[UrlOf(k)])
          /\ server[UrlOf(k)].etag = "e2"
          /\ cacheFile.data[UrlOf(k)].etag = "e1"
          /\ cacheFile.data[UrlOf(k)].last_checked = now_jst_iso(now)
          /\ now # Now0

\* C8: after a 2xx answer the record holds, for each validator, the value of
\* the response header when the response has it and the cached value when it
\* has not, and last_status is the response status; after any answer at all,
\* a validator that was cached is still there (the old one or the one the
\* response brought).
C8_Validators ==
    pc = "fetch" =>
        \A k \in 1..(si - 1) :
            UrlOf(k) # "" =>
               LET old == OldRecord(UrlOf(k))
                   new == http_cache[UrlOf(k)]
                   r   == server[UrlOf(k)]
               IN  /\ Success(r) =>
                         /\ new.etag = (IF r.etag # "" THEN r.etag ELSE old.etag)
                         /\ new.last_modified =
                               (IF r.last_modified # "" THEN r.last_modified ELSE old.last_modified)
                         /\ new.last_status = r.status
                   /\ old.etag # "" => new.etag \in {old.etag, r.etag} \ {""}
                   /\ old.last_modified # "" =>
                         new.last_modified \in {old.last_modified, r.last_modified} \ {""}

\* Both sources had cached validators; one 200 answer replaced its ETag by a
\* fresher one, the other 200 answer carried no validator at all.
C8_Witness ==
    /\ pc = "fetch"
    /\ si > Len(sources)
    /\ \E k1, k2 \in 1..Len(sources) :
          /\ UrlOf(k1) # ""
          /\ UrlOf(k2) # ""
          /\ OldRecord(UrlOf(k1)).etag = "e1"
          /\ Success(server[UrlOf(k1)])
          /\ server[UrlOf(k1)].etag = "e2"
          /\ http_cache[UrlOf(k1)].etag = "e2"
          /\ OldRecord(UrlOf(k2)).etag = "e2"
          /\ OldRecord(UrlOf(k2)).last_modified = "m1"
          /\ Success(server[UrlOf(k2)])
          /\ server[UrlOf(k2)].etag = ""
          /\ server[UrlOf(k2)].last_modified = ""


\* The sources of the list that the loop fetches: those with a URL.
RECURSIVE WithUrl(_)
WithUrl(srcs) ==
    IF srcs = <<>> THEN <<>>
    ELSE (IF safe_text(Head(srcs).url) # "" THEN <<Head(srcs)>> ELSE <<>>) \o WithUrl(Tail(srcs))

AfterFetch == pc \in {"save_cache", "upsert", "write_tmp", "rename", "index", "latest", "metrics", "done"}

\* C9: whatever the servers answer, a source whose fetch fails (transport
\* error, timeout, status other than 2xx and 304) gets last_status -1 and
\* keeps its cached validators; the loop records one metric per source with a
\* URL, in order, and goes through the whole list; the items of the sources
\* that succeeded are in the archive when upsert_archive returns; and the run
\* ends with the cache saved and the index, window and metrics written.
C9_FailureIsolation ==
    /\ pc = "fetch" =>
         /\ Len(metrics) = Len(WithUrl(SubSeq(sources, 1, si - 1)))
         /\ \A k \in 1..(si - 1) :
               (UrlOf(k) # "" /\ Failing(server[UrlOf(k)])) =>
                  /\ http_cache[UrlOf(k)].last_status = -1
                  /\ http_cache[UrlOf(k)].etag = OldRecord(UrlOf(k)).etag
                  /\ http_cache[UrlOf(k)].last_modified = OldRecord(UrlOf(k)).last_modified
                  /\ \A j \in 1..Len(out) : out[j].source # sources[k].name
    /\ AfterFetch =>
         /\ Len(metrics) = Len(WithUrl(sources))
         /\ \A j \in 1..Len(metrics) :
               /\ metrics[j].name = WithUrl(sources)[j].name
               /\ metrics[j].url = WithUrl(sources)[j].url
               /\ Failing(server[metrics[j].url]) => metrics[j].status = -1
    /\ UpsertDone =>
         \A k \in 1..Len(sources) :
            (UrlOf(k) # "" /\ Success(server[UrlOf(k)])) =>
               \A it \in ItemSet(normalize_all(server[UrlOf(k)].body, sources[k].name,
                                               sources[k].category, now)) :
                  it.link \in AllLinks(archive)
    /\ pc = "done" =>
         /\ cacheFile = [state |-> "ok", data |-> http_cache]
         /\ indexFile = index_payload(archive, now)
         /\ latestFile = [exists |-> TRUE, lines |-> latest_lines(archive, now)]
         /\ metricsFile.exists
         /\ metricsFile.count = Len(WithUrl(sources))

NoDuplicate(lines) == \A i, j \in 1..Len(lines) : lines[i].link = lines[j].link => i = j

\* C10 as stated: no step ever takes an item, or the file, away from a
\* partition that exists, or leaves a partition with a repeated link.
C10_NeverLosesItems_Original ==
    [][\A mk \in DOMAIN archive :
          /\ mk \in DOMAIN archive'
          /\ ItemSet(archive[mk]) \subseteq ItemSet(archive'[mk])
          /\ NoDuplicate(archive'[mk])]_vars

\* C10: every step leaves each existing partition with all the items it had
\* and without a repeated link, the pruning step excepted, which deletes the
\* partitions of the months before the retention cutoff and only those.
C10_NeverLosesItems ==
    [][/\ \A mk \in DOMAIN archive :
             \/ /\ mk \in DOMAIN archive'
                /\ ItemSet(archive[mk]) \subseteq ItemSet(archive'[mk])
             \/ /\ pc = "upsert"
                /\ pc' = "index"
                /\ Older(mk)
                /\ mk \notin DOMAIN archive'
       /\ \A mk \in DOMAIN archive' : NoDuplicate(archive'[mk])]_vars

\* A later run has added an item to a partition that an earlier run had left,
\* and has pruned another partition that an earlier run had left.
C10_Witness ==
    /\ pc = "index"
    /\ \E mk \in DOMAIN archive0 :
          /\ mk \in DOMAIN archive
          /\ Len(archive0[mk]) >= 1
          /\ Len(archive[mk]) > Len(archive0[mk])
    /\ \E mk \in DOMAIN archive0 : mk \notin DOMAIN archive


\* The month keys of the partitions that hold link lk.
MonthsOf(files_, lk) == {mk \in DOMAIN files_ : lk \in Links(files_[mk])}

\* C11: a link that was archived under one month key is never archived under
\* another one: in every reachable state each link is in at most one
\* partition of the archive.
C11_OnePartitionPerLink ==
    \A lk \in AllLinks(archive) : Cardinality(MonthsOf(archive, lk)) <= 1

\* The batch in another order of arrival.
Reordered(s, p) == [k \in 1..Len(s) |-> s[p[k]]]

\* C12: whatever the order in which the normalized items arrive, the in-run
\* deduplication yields the same item for every link, and that item has the
\* greatest timestamp among the items of its link.
C12_DedupeOrderIndependent ==
    pc = "upsert" =>
        /\ \A p \in Permutations(1..Len(out)) :
              ItemSet(dedupe_batch(Reordered(out, p))) = ItemSet(items)
        /\ \A k \in 1..Len(items) : \A j \in 1..Len(out) :
              out[j].link = items[k].link => ~StrLess(items[k].pubDate, out[j].pubDate)

\* C13: when upsert_archive has returned, the archived item of every link of
\* the batch carries a timestamp at least as great as the one this run has
\* fetched for the link.
C13_LaterWinsAcrossRuns ==
    UpsertDone =>
        \A k \in 1..Len(items) :
            \A q \in PlacesOf(archive, items[k].link) :
                ~StrLess(archive[q[1]][q[2]].pubDate, items[k].pubDate)


\* The month of the clock in the archive timezone, and the partitions on disk
\* of that month and of the LATEST_MONTHS - 1 months before it.
CurrentMonth == <<Fields(now + JSTOffset)[1], Fields(now + JSTOffset)[2]>>

WindowMonths ==
    {mk \in DOMAIN archive :
        /\ MonthIndex(mk) <= MonthIndex(CurrentMonth)
        /\ MonthIndex(mk) > MonthIndex(CurrentMonth) - LATEST_MONTHS}

WindowItems == UNION {ItemSet(archive[mk]) : mk \in WindowMonths}

\* C14: after generate_latest the window file holds, newest first and once
\* per link, the items of the partitions of the current month and the
\* LATEST_MONTHS - 1 months before it: every link of those partitions is
\* there with an item of the greatest timestamp, and no item of any other
\* partition is; what the file held before plays no part.
C14_LatestRecomputed ==
    pc \in {"metrics", "done"} =>
        /\ latestFile.exists
        /\ NoDuplicate(latestFile.lines)
        /\ ItemSet(latestFile.lines) \subseteq WindowItems
        /\ Links(latestFile.lines) = {it.link : it \in WindowItems}
        /\ \A it \in ItemSet(latestFile.lines) : \A w \in WindowItems :
              w.link = it.link => ~StrLess(it.pubDate, w.pubDate)
        /\ \A i, j \in 1..Len(latestFile.lines) :
              i < j => ~StrLess(latestFile.lines[i].pubDate, latestFile.lines[j].pubDate)

\* generate_latest has run over an archive that holds one link in two
\* partitions of the window and has a partition outside the window.
C14_Witness ==
    /\ pc = "metrics"
    /\ \E lk \in AllLinks(archive) : Cardinality(MonthsOf(archive, lk) \cap WindowMonths) = 2
    /\ DOMAIN archive \ WindowMonths # {}


\* The entry has no parsed date, and its date text is absent or unreadable.
Undated(e) ==
    /\ e.published_parsed = None
    /\ e.updated_parsed = None
    /\ e.published.kind \in {"absent", "garbage"}
    /\ e.published.kind = "absent" => e.updated.kind \in {"absent", "garbage"}

\* Item it was made in this run from an undated entry of its source's feed.
FetchedUndated(it) ==
    \E k \in 1..Len(sources) :
        /\ safe_text(sources[k].name) = it.source
        /\ UrlOf(k) # ""
        /\ Success(server[UrlOf(k)])
        /\ \E e \in ItemSet(server[UrlOf(k)].body) :
              e.link = it.link /\ e.title = it.title /\ Undated(e)

AddedTo(mk) == ItemSet(read_ndjson_gz(archive, mk)) \ ItemSet(read_ndjson_gz(archive0, mk))

\* C15: an item made from an entry without a readable date carries the
\* clock's instant as its timestamp, and a partition that gains such an item
\* during the run is the partition of the clock's month in the archive
\* timezone.
C15_UndatedIsNow ==
    pc \notin {"idle", "load_sources"} =>
        /\ \A k \in 1..Len(out) :
              FetchedUndated(out[k]) => out[k].pubDate = Fields(now)
        /\ \A mk \in DOMAIN archive : \A it \in AddedTo(mk) :
              FetchedUndated(it) => (mk = CurrentMonth /\ it.pubDate = Fields(now))

\* A run a month after the first one has archived, in the partition of its
\* month, an item whose entry carried an unreadable date text, and another
\* whose entry carried no date at all.
C15_Witness ==
    /\ pc = "index"
    /\ advances = 1
    /\ CurrentMonth # month_key_from_dt(Now0)
    /\ \E it \in AddedTo(CurrentMonth) :
          /\ FetchedUndated(it)
          /\ \E k \in 1..Len(sources) :
                /\ Success(server[UrlOf(k)])
                /\ \E e \in ItemSet(server[UrlOf(k)].body) :
                      e.link = it.link /\ e.published.kind = "garbage"
    /\ \E it \in AddedTo(CurrentMonth) :
          /\ FetchedUndated(it)
          /\ it.link = FreshEntry.link


\* C16: when a run is complete, and until the next one starts, the index
\* lists exactly the month keys that have a partition file, each once, in
\* ascending order; minMonth is the first and maxMonth the last of the list,
\* and both are null when there is no partition.
C16_IndexMatchesDisk ==
    (pc = "done" \/ (pc = "idle" /\ runs > 0)) =>
        /\ indexFile.exists
        /\ {indexFile.months[k] : k \in 1..Len(indexFile.months)} = DOMAIN archive
        /\ \A i, j \in 1..Len(indexFile.months) :
              i < j => StrLess(indexFile.months[i], indexFile.months[j])
        /\ indexFile.minMonth =
              (IF DOMAIN archive = {} THEN None ELSE Some(indexFile.months[1]))
        /\ indexFile.maxMonth =
              (IF DOMAIN archive = {} THEN None ELSE Some(indexFile.months[Len(indexFile.months)]))

\* A run has pruned a partition that the index of the previous run listed,
\* has created another, and ends with two partitions on disk.
C16_Witness ==
    /\ pc = "done"
    /\ Cardinality(DOMAIN archive) >= 2
    /\ DOMAIN archive0 \ DOMAIN archive # {}
    /\ DOMAIN archive \ DOMAIN archive0 # {}

\* A run has ended with no partition on disk at all.
C16_WitnessEmpty == pc = "done" /\ DOMAIN archive = {} /\ DOMAIN archive0 # {}


\* C17: a step in which the source list fails to load ends the run without
\* any fetch (no metric, no item, no cache record in memory) and leaves the
\* cache file, the partitions, the window, the index and the metrics file as
\* they were; nothing changes them until the next run starts.
C17_ConfigFailureAborts ==
    [][fault' = "config" =>
          /\ pc' = "idle"
          /\ UNCHANGED files
          /\ metrics' = <<>>
          /\ out' = <<>>
          /\ http_cache' = <<>>]_vars

\* A second run has failed to load the source list, after a first run that
\* left a cache with validators, a partition, a window, an index and metrics.
C17_Witness ==
    /\ fault = "config"
    /\ pc = "idle"
    /\ runs = 2
    /\ cacheFile.state = "ok"
    /\ \E u \in DOMAIN cacheFile.data : cacheFile.data[u].etag # ""
    /\ DOMAIN archive # {}
    /\ latestFile.exists
    /\ indexFile.exists
    /\ metricsFile.exists


\* C18: a step in which a write of the cache, of a partition or of the
\* window fails ends the run: no later stage runs, and after a failed
\* partition write the index, the window and the metrics file stay as the
\* previous run left them until the next run starts.
C18_PersistenceFailureFatal ==
    [][fault' \in {"cache", "partition", "latest"} =>
          /\ pc' = "idle"
          /\ indexFile' = indexFile
          /\ metricsFile' = metricsFile
          /\ fault' \in {"cache", "partition"} => latestFile' = latestFile]_vars

\* The second run has failed in tmp.replace: the temporary file is left with
\* an item that the window and the partitions of the previous run do not
\* hold, and the index and the window of the previous run are still there.
C18_Witness ==
    /\ fault = "partition"
    /\ pc = "idle"
    /\ runs = 2
    /\ tmpFile.exists
    /\ \E k \in 1..Len(tmpFile.lines) :
          /\ tmpFile.lines[k].link \notin read_latest_links(latestFile)
          /\ tmpFile.lines[k].link \notin AllLinks(archive)
    /\ indexFile.exists
    /\ latestFile.exists
    /\ {indexFile.months[k] : k \in 1..Len(indexFile.months)} = DOMAIN archive


\* The number of lines of all partition files together.
TotalLines(files_) ==
    Cardinality(UNION {{<<mk, k>> : k \in 1..Len(files_[mk])} : mk \in DOMAIN files_})

\* C19: when upsert_archive returns, no partition has gained an item whose
\* link the window file lists or the partition held when the run started,
\* and the count returned is the number of lines the partitions have gained.
C19_LatestGuard ==
    UpsertDone =>
        /\ \A mk \in DOMAIN archive : \A it \in AddedTo(mk) :
              /\ it.link \notin read_latest_links(latestFile)
              /\ it.link \notin Links(read_ndjson_gz(archive0, mk))
        /\ added_total = TotalLines(archive) - TotalLines(archive0)

\* A run has rejected a candidate because the window lists its link, although
\* the partition of the candidate's month does not hold it, and has added
\* another item.
C19_Witness ==
    /\ UpsertDone
    /\ added_total >= 1
    /\ \E k \in 1..Len(items) :
          /\ items[k].link \in read_latest_links(latestFile)
          /\ items[k].link \notin Links(read_ndjson_gz(archive, item_month(items[k])))

\* Some candidate of month mk is in neither the partition of mk as the run
\* found it nor the window.
Admissible(mk) ==
    \E it \in ItemSet(by_month(items, mk)) :
        it.link \notin Links(read_ndjson_gz(archive0, mk)) \cup read_latest_links(latestFile)

\* C20: during upsert_archive a temporary file is opened only for a month
\* with an admitted candidate, and a month all of whose candidates are
\* rejected, or that has no candidate, keeps its partition as it is: an
\* existing file keeps its content and a missing one is not created.
C20_RejectedMonthUntouched ==
    [][(pc \in {"upsert", "write_tmp", "rename"} /\ pc' \in {"upsert", "write_tmp", "rename"}) =>
          /\ pc' = "write_tmp" => Admissible(pending'.mk)
          /\ \A mk \in DOMAIN archive \cup DOMAIN archive' :
                ~Admissible(mk) =>
                    /\ mk \in DOMAIN archive
                    /\ mk \in DOMAIN archive'
                    /\ archive'[mk] = archive[mk]]_vars

\* upsert_archive has returned after rejecting every candidate: one of a
\* month with a partition, one of a month without.
C20_Witness ==
    /\ UpsertDone
    /\ items # <<>>
    /\ archive = archive0
    /\ added_total = 0
    /\ \E k \in 1..Len(items) : item_month(items[k]) \in DOMAIN archive
    /\ \E k \in 1..Len(items) : item_month(items[k]) \notin DOMAIN archive


\* The links of the items that a feed body yields (entries with a title and a
\* link).
BodyLinks(body) == {e.link : e \in {x \in ItemSet(body) : safe_text(x.title) # "" /\ safe_text(x.link) # ""}}

\* C21: between runs and at the end of a run, when the cache file holds for
\* some URL the ETag that a 2xx response brought, every item of that
\* response is in a partition or in the window.  (Each ETag of the servers
\* here comes with one body.)
C21_NoItemLostToCache ==
    (pc \in {"idle", "done"} /\ cacheFile.state = "ok") =>
        \A u \in DOMAIN cacheFile.data : \A r \in CrashResponses :
            (Success(r) /\ r.etag # "" /\ cacheFile.data[u].etag = r.etag) =>
                BodyLinks(r.body) \subseteq AllLinks(archive) \cup read_latest_links(latestFile)

\* C22: every item of the partition file of month key M has a publication
\* timestamp whose year and month in the archive timezone are M.
C22_PartitionIsJstMonth ==
    \A mk \in DOMAIN archive : \A it \in ItemSet(archive[mk]) :
        LET jst == Fields(Instant(it.pubDate[1], it.pubDate[2], it.pubDate[3]) + JSTOffset)
        IN  mk = <<jst[1], jst[2]>>

\* A partition holds an item published in the last tick of the previous
\* month in UTC, next to none or more items of its own UTC month.
C22_Witness ==
    \E mk \in DOMAIN archive : \E it \in ItemSet(archive[mk]) :
        /\ <<it.pubDate[1], it.pubDate[2]>> # mk
        /\ it.pubDate[3] = TicksPerMonth - 1
        /\ MonthIndex(mk) = MonthIndex(<<it.pubDate[1], it.pubDate[2]>>) + 1

=============================================================================
